---- MODULE Spec2Model ----
(***************************************************************************)
(* The startup funding dashboard (strartup.py) as a state machine.         *)
(*                                                                         *)
(* The program is a Streamlit script: it runs top to bottom once when the  *)
(* page is opened and once more, whole, every time the user changes a      *)
(* sidebar widget.  The state is the loaded table df_raw, the five         *)
(* multiselect widgets and what the last run of the script computed.       *)
(*                                                                         *)
(* Values.  A cell of a table is one of                                    *)
(*     NaN                    a missing value                              *)
(*     <<"str", chars>>       a text, chars a sequence of characters       *)
(*     <<"num", m, e>>        the number m * 10^(-e), kept normalised      *)
(*     <<"date", d, m, y>>    a text pandas.to_datetime reads as that day  *)
(* A DataFrame is [index |-> row labels, cols |-> name :> column]; a column *)
(* is the sequence of its cells in row order and a column name a sequence  *)
(* of characters.  pandas 1.x semantics are modelled (the version the      *)
(* calls in the script are written for).                                   *)
(***************************************************************************)
EXTENDS Integers, Sequences, FiniteSets, TLC

VARIABLES
    df_raw,               \* load_data(): the table as read from the CSV
    ran,                  \* the script has run at least once
    selected_years,       \* the sidebar multiselects (sets of texts)
    selected_cities,
    selected_industries,
    selected_investors,
    selected_rounds,
    df,                   \* the table after the cleaning section
    has_geo,
    filtered,             \* the table after the filters
    total_funding,
    startup_count,
    avg_ticket,
    top_city,
    metrics,              \* the three st.metric labels, <<>> while not drawn
    top,                  \* Top 10 Funded Startups
    by_year,              \* Funding Over Years
    treemap,              \* Industry Treemap (Top 20)
    md,                   \* export_markdown(filtered)
    raised                \* "" or the exception that ended the last run

vars == <<df_raw, ran, selected_years, selected_cities, selected_industries,
          selected_investors, selected_rounds, df, has_geo, filtered,
          total_funding, startup_count, avg_ticket, top_city, metrics, top,
          by_year, treemap, md, raised>>

-----------------------------------------------------------------------------
(* Values *)

NaN == <<>>

Str(chars) == <<"str", chars>>

Num(m, e) == <<"num", m, e>>

IsNaN(c) == c = NaN

IsStr(c) == Len(c) = 2 /\ c[1] = "str"

IsNum(c) == Len(c) = 3 /\ c[1] = "num"

IsDate(c) == Len(c) = 4 /\ c[1] = "date"

RECURSIVE Pow10(_)
Pow10(e) == IF e = 0 THEN 1 ELSE 10 * Pow10(e - 1)

\* A number in normal form: no trailing zero in the fraction.
RECURSIVE NumNorm(_, _)
NumNorm(m, e) ==
    IF e > 0 /\ m % 10 = 0 THEN NumNorm(m \div 10, e - 1) ELSE Num(m, e)

Max(a, b) == IF a >= b THEN a ELSE b

\* a and b on the common scale 10^(-Max(a.e, b.e))
Scaled(a, b) == a[2] * Pow10(Max(a[3], b[3]) - a[3])

NumAdd(a, b) == NumNorm(Scaled(a, b) + Scaled(b, a), Max(a[3], b[3]))

NumLess(a, b) == Scaled(a, b) < Scaled(b, a)

Zero == Num(0, 0)

-----------------------------------------------------------------------------
(* Texts *)

DigitChars == <<"0", "1", "2", "3", "4", "5", "6", "7", "8", "9">>

IsDigit(ch) == \E i \in 1..10 : DigitChars[i] = ch

DigitVal(ch) == (CHOOSE i \in 1..10 : DigitChars[i] = ch) - 1

IsSpace(ch) == ch \in {" ", "\t"}

\* The characters of the texts below in code point order (str comparison).
CodePoints ==
    <<"\t", " ", "$", ",", ".", "/", "0", "1", "2", "3", "4", "5", "6", "7",
      "8", "9", "?", "A", "B", "C", "D", "E", "F", "G", "H", "I", "J", "K",
      "L", "M", "N", "O", "P", "Q", "R", "S", "T", "U", "V", "W", "X", "Y",
      "Z", "_", "a", "b", "c", "d", "e", "f", "g", "h", "i", "j", "k", "l",
      "m", "n", "o", "p", "q", "r", "s", "t", "u", "v", "w", "x", "y", "z">>

Ord(ch) == CHOOSE i \in 1..Len(CodePoints) : CodePoints[i] = ch

\* Python's str < str
RECURSIVE StrLess(_, _)
StrLess(s, t) ==
    IF t = <<>> THEN FALSE
    ELSE IF s = <<>> THEN TRUE
    ELSE IF Head(s) = Head(t) THEN StrLess(Tail(s), Tail(t))
    ELSE Ord(Head(s)) < Ord(Head(t))

\* str.strip()
RECURSIVE LStrip(_)
LStrip(s) == IF s # <<>> /\ IsSpace(Head(s)) THEN LStrip(Tail(s)) ELSE s

RECURSIVE RStrip(_)
RStrip(s) ==
    IF s # <<>> /\ IsSpace(s[Len(s)]) THEN RStrip(SubSeq(s, 1, Len(s) - 1))
    ELSE s

Strip(s) == RStrip(LStrip(s))

-----------------------------------------------------------------------------
(* The column names the script refers to *)

AmountInUSD == <<"A", "m", "o", "u", "n", "t", " ", "i", "n", " ", "U", "S", "D">>

YearName == <<"Y", "e", "a", "r">>

DateName == <<"D", "a", "t", "e">>

CityLocation == <<"C", "i", "t", "y", " ", "l", "o", "c", "a", "t", "i", "o", "n">>

CityName == <<"C", "i", "t", "y">>

LocationName == <<"L", "o", "c", "a", "t", "i", "o", "n">>

HeadquartersName == <<"H", "e", "a", "d", "q", "u", "a", "r", "t", "e", "r", "s">>

StartupName == <<"S", "t", "a", "r", "t", "u", "p", " ", "N", "a", "m", "e">>

IndustryVertical == <<"I", "n", "d", "u", "s", "t", "r", "y", " ", "V", "e", "r", "t", "i", "c", "a", "l">>

InvestorsName == <<"I", "n", "v", "e", "s", "t", "o", "r", "s", " ", "N", "a", "m", "e">>

FundingRound == <<"F", "u", "n", "d", "i", "n", "g", " ", "R", "o", "u", "n", "d">>

LatitudeName == <<"L", "a", "t", "i", "t", "u", "d", "e">>

LongitudeName == <<"L", "o", "n", "g", "i", "t", "u", "d", "e">>

\* for candidate in ['City location', 'City', 'Location', 'Headquarters']
CityCandidates == <<CityLocation, CityName, LocationName, HeadquartersName>>

-----------------------------------------------------------------------------
(* DataFrames *)

\* A DataFrame is [index |-> the row labels, cols |-> name :> column], a
\* column being the sequence of its cells in row order.
NRows(d) == Len(d.index)

HasCol(d, name) == name \in DOMAIN d.cols

\* d[name]
Col(d, name) == d.cols[name]

\* d[name] = vals : the column is replaced, or added when it is new
SetCol(d, name, vals) ==
    [d EXCEPT !.cols =
        [c \in DOMAIN d.cols \cup {name} |-> IF c = name THEN vals ELSE d.cols[c]]]

\* np.nan broadcast to a column of d
AllNaN(d) == [r \in 1..NRows(d) |-> NaN]

\* d.rename(columns={old: new})
Rename(d, old, new) ==
    [d EXCEPT !.cols =
        [c \in (DOMAIN d.cols \ {old}) \cup {new} |->
            IF c = new THEN d.cols[old] ELSE d.cols[c]]]

\* the positions 1..n a boolean mask keeps, in order
RECURSIVE KeptUpTo(_, _)
KeptUpTo(mask, n) ==
    IF n = 0 THEN <<>>
    ELSE IF mask[n] THEN Append(KeptUpTo(mask, n - 1), n)
    ELSE KeptUpTo(mask, n - 1)

\* d.iloc[pos]
Take(d, pos) ==
    [index |-> [k \in 1..Len(pos) |-> d.index[pos[k]]],
     cols  |-> [c \in DOMAIN d.cols |-> [k \in 1..Len(pos) |-> d.cols[c][pos[k]]]]]

\* d[mask] : the rows the mask keeps, in order, under their labels
Where(d, mask) == LET pos == KeptUpTo(mask, NRows(d)) IN Take(d, pos)

-----------------------------------------------------------------------------
(* Utility functions *)

\* str(x) of a cell of an object column
AsTypeStr(c) == IF IsNaN(c) THEN <<"n", "a", "n">> ELSE c[2]

\* re.sub(r'[^\d.]', '', s)
RECURSIVE RemoveNonNumeric(_)
RemoveNonNumeric(s) ==
    IF s = <<>> THEN <<>>
    ELSE IF IsDigit(Head(s)) \/ Head(s) = "."
         THEN <<Head(s)>> \o RemoveNonNumeric(Tail(s))
         ELSE RemoveNonNumeric(Tail(s))

RECURSIVE CountOf(_, _)
CountOf(s, ch) ==
    IF s = <<>> THEN 0
    ELSE (IF Head(s) = ch THEN 1 ELSE 0) + CountOf(Tail(s), ch)

\* the integer the digits of s spell, its decimal point skipped
RECURSIVE DigitsValue(_, _)
DigitsValue(s, acc) ==
    IF s = <<>> THEN acc
    ELSE IF Head(s) = "." THEN DigitsValue(Tail(s), acc)
    ELSE DigitsValue(Tail(s), 10 * acc + DigitVal(Head(s)))

\* the number of characters after the decimal point of s
RECURSIVE AfterPoint(_)
AfterPoint(s) ==
    IF s = <<>> THEN 0
    ELSE IF Head(s) = "." THEN Len(s) - 1
    ELSE AfterPoint(Tail(s))

\* pd.to_numeric(text, errors='coerce') for a text of the inputs drawn here:
\* digits with at most one decimal point parse, anything else is NaN.
ParseNumber(s) ==
    IF /\ \A i \in 1..Len(s) : IsDigit(s[i]) \/ s[i] = "."
       /\ CountOf(s, ".") <= 1
       /\ Len(s) - CountOf(s, ".") >= 1
    THEN NumNorm(DigitsValue(s, 0), AfterPoint(s))
    ELSE NaN

\* pd.to_numeric(cell, errors='coerce')
ToNumeric(c) ==
    IF IsNum(c) THEN c
    ELSE IF IsStr(c) THEN ParseNumber(c[2])
    ELSE NaN

\* col.dtype == object : read_csv types a column object when it holds a text
IsObject(col) == \E i \in DOMAIN col : IsStr(col[i]) \/ IsDate(col[i])

\* clean_amount without s.replace('', np.nan), an empty text read as 0
clean_amount_empty_as_zero(col) ==
    IF IsObject(col)
    THEN [i \in DOMAIN col |->
            LET s == RemoveNonNumeric(AsTypeStr(col[i]))
            IN  IF s = <<>> THEN Zero ELSE ParseNumber(s)]
    ELSE [i \in DOMAIN col |-> ToNumeric(col[i])]

clean_amount(col) ==
    IF IsObject(col)
    THEN [i \in DOMAIN col |->
            LET s == RemoveNonNumeric(AsTypeStr(col[i]))
            IN  IF s = <<>> THEN NaN ELSE ParseNumber(s)]
    ELSE [i \in DOMAIN col |-> ToNumeric(col[i])]

-----------------------------------------------------------------------------
(* Basic cleaning (lines 58-98) *)

\* the column names left as they are read
ColumnsAsRead(d) == d

\* df.columns = [c.strip() for c in df.columns]
StripColumns(d) ==
    [d EXCEPT !.cols =
        [c \in {Strip(x) : x \in DOMAIN d.cols} |->
            d.cols[CHOOSE x \in DOMAIN d.cols : Strip(x) = c]]]

\* if 'Amount in USD' not in df.columns: df['Amount in USD'] = np.nan
WithAmount(d) ==
    IF HasCol(d, AmountInUSD) THEN d
    ELSE LET nan == AllNaN(d) IN SetCol(d, AmountInUSD, nan)

\* pd.to_datetime(cell, errors='coerce').year : NaN for what is no date
ToDatetimeYear(c) == IF IsDate(c) THEN Num(c[4], 0) ELSE NaN

\* if 'Year' not in df.columns: from 'Date' when there is one, else NaN
WithYear(d) ==
    IF HasCol(d, YearName) THEN d
    ELSE IF HasCol(d, DateName)
         THEN LET col  == Col(d, DateName)
                  year == [r \in 1..NRows(d) |-> ToDatetimeYear(col[r])]
              IN  SetCol(d, YearName, year)
         ELSE LET nan == AllNaN(d) IN SetCol(d, YearName, nan)

\* CleanedAmount followed by fillna(0)
CleanedAmountFilled(d) ==
    LET col     == Col(d, AmountInUSD)
        cleaned == clean_amount(col)
        filled  == [r \in 1..NRows(d) |-> IF IsNaN(cleaned[r]) THEN Zero ELSE cleaned[r]]
    IN  SetCol(d, AmountInUSD, filled)

\* df['Amount in USD'] = clean_amount(df['Amount in USD'])
CleanedAmount(d) ==
    LET col     == Col(d, AmountInUSD)
        cleaned == clean_amount(col)
    IN  SetCol(d, AmountInUSD, cleaned)

\* YearToNumeric followed by dropna(subset=['Year'])
YearToNumericDropna(d) ==
    LET col     == Col(d, YearName)
        numeric == [r \in 1..NRows(d) |-> ToNumeric(col[r])]
        t       == SetCol(d, YearName, numeric)
        mask    == [r \in 1..NRows(d) |-> ~IsNaN(numeric[r])]
    IN  Where(t, mask)

\* pd.to_numeric(df['Year'], errors='coerce')
YearToNumeric(d) ==
    LET col     == Col(d, YearName)
        numeric == [r \in 1..NRows(d) |-> ToNumeric(col[r])]
    IN  SetCol(d, YearName, numeric)

\* .astype('Int64') raises TypeError on a number that is no integer
CastRaises(d) ==
    LET col == Col(d, YearName)
    IN  \E r \in 1..NRows(d) : IsNum(col[r]) /\ col[r][3] > 0

\* the first candidate that is a column, 0 when none is
city_col(d) ==
    IF \E k \in 1..Len(CityCandidates) : HasCol(d, CityCandidates[k])
    THEN CHOOSE k \in 1..Len(CityCandidates) :
            /\ HasCol(d, CityCandidates[k])
            /\ \A j \in 1..(k - 1) : ~HasCol(d, CityCandidates[j])
    ELSE 0

ResolveCity(d) ==
    LET k == city_col(d)
    IN  IF k = 0 THEN LET nan == AllNaN(d) IN SetCol(d, CityLocation, nan)
        ELSE Rename(d, CityCandidates[k], CityLocation)

\* the table up to line 82, before the cast
BeforeCast(d) ==
    LET stripped   == StripColumns(d)
        withAmount == WithAmount(stripped)
        withYear   == WithYear(withAmount)
        cleaned    == CleanedAmount(withYear)
    IN  YearToNumeric(cleaned)

\* the table the cleaning section leaves
Cleaned(d) == LET b == BeforeCast(d) IN ResolveCity(b)

HasGeo(d) == HasCol(d, LatitudeName) /\ HasCol(d, LongitudeName)

-----------------------------------------------------------------------------
(* Sidebar controls (lines 133-152) *)

\* str(n) of a natural number
RECURSIVE IntToStr(_)
IntToStr(n) ==
    IF n < 10 THEN <<DigitChars[n + 1]>>
    ELSE Append(IntToStr(n \div 10), DigitChars[(n % 10) + 1])

\* int(text)
StrToInt(s) == DigitsValue(s, 0)

\* d[name].dropna().unique()
Unique(d, name) ==
    LET col == Col(d, name) IN {col[r] : r \in 1..NRows(d)} \ {NaN}

years(d) == {IntToStr(c[2]) : c \in Unique(d, YearName)}

cities(d) == {c[2] : c \in Unique(d, CityLocation)}

\* the options of a multiselect over an optional column
OptionsOf(d, name) == IF HasCol(d, name) THEN {c[2] : c \in Unique(d, name)} ELSE {}

industries(d) == OptionsOf(d, IndustryVertical)

investors(d) == OptionsOf(d, InvestorsName)

round_options(d) == OptionsOf(d, FundingRound)

-----------------------------------------------------------------------------
(* Apply filters (lines 159-176) *)

\* Series.isin(values) on a text cell
IsIn(c, values) == IsStr(c) /\ c[2] \in values

\* FilterYears keeping the rows without a year as well
FilterYearsKeepingNaN(d, sel) ==
    IF sel # {}
    THEN LET years_sel == {StrToInt(y) : y \in sel}
             col == Col(d, YearName)
             mask == [r \in 1..NRows(d) |->
                         IsNaN(col[r]) \/ (IsNum(col[r]) /\ col[r][2] \in years_sel)]
         IN  Where(d, mask)
    ELSE d

\* filtered[filtered['Year'].isin([int(y) for y in selected_years])]
FilterYears(d, sel) ==
    IF sel # {}
    THEN LET years_sel == {StrToInt(y) : y \in sel}
             col == Col(d, YearName)
             mask == [r \in 1..NRows(d) |-> IsNum(col[r]) /\ col[r][2] \in years_sel]
         IN  Where(d, mask)
    ELSE d

\* FilterColumn without the test "if selected": an empty selection keeps no row
FilterColumnUnguarded(d, name, sel) ==
    LET col  == Col(d, name)
        mask == [r \in 1..NRows(d) |-> IsIn(col[r], sel)]
    IN  Where(d, mask)

\* filtered[filtered[name].isin(sel)] when sel is not empty
FilterColumn(d, name, sel) ==
    IF sel # {}
    THEN LET col  == Col(d, name)
             mask == [r \in 1..NRows(d) |-> IsIn(col[r], sel)]
         IN  Where(d, mask)
    ELSE d

ApplyFilters(d, sy, sc, si, sv, sr) ==
    LET byYear     == FilterYears(d, sy)
        byCity     == FilterColumn(byYear, CityLocation, sc)
        byIndustry == FilterColumn(byCity, IndustryVertical, si)
        byInvestor == FilterColumn(byIndustry, InvestorsName, sv)
    IN  FilterColumn(byInvestor, FundingRound, sr)

-----------------------------------------------------------------------------
(* Aggregation *)

\* the sum of the known cells of col[1..n]; 0 when there is none
RECURSIVE SumUpTo(_, _)
SumUpTo(col, n) ==
    IF n = 0 THEN Zero
    ELSE IF IsNaN(col[n]) THEN SumUpTo(col, n - 1)
    ELSE NumAdd(SumUpTo(col, n - 1), col[n])

\* Series.count()
CountKnown(col) == Cardinality({i \in DOMAIN col : ~IsNaN(col[i])})

\* Series.sum() with the default min_count=0
SumMinCount0(col) == SumUpTo(col, Len(col))

\* Series.sum(min_count=1)
SumMinCount1(col) ==
    IF CountKnown(col) = 0 THEN NaN ELSE SumUpTo(col, Len(col))

\* Series.mean() as the pair <<sum, count>> of the known cells
Mean(col) == <<SumUpTo(col, Len(col)), CountKnown(col)>>

\* the order groupby sorts its keys in
CellLess(a, b) == IF IsNum(a) THEN NumLess(a, b) ELSE StrLess(a[2], b[2])

RECURSIVE SortedKeys(_)
SortedKeys(S) ==
    IF S = {} THEN <<>>
    ELSE LET m == CHOOSE x \in S : \A y \in S \ {x} : CellLess(x, y)
         IN  <<m>> \o SortedKeys(S \ {m})

\* the Amount in USD cells of the rows of d whose key cell is k, others NaN
AmountsOf(d, key, k) ==
    LET keys    == Col(d, key)
        amounts == Col(d, AmountInUSD)
    IN  [r \in 1..NRows(d) |-> IF keys[r] = k THEN amounts[r] ELSE NaN]

\* d.groupby(key, dropna=True)['Amount in USD'].sum() : one <<key, total>>
\* per key that is not NaN, in key order; a group's NaN amounts are skipped
GroupSum(d, key) ==
    LET present == Unique(d, key)
        keys    == SortedKeys(present)
    IN  [i \in 1..Len(keys) |->
            LET amounts == AmountsOf(d, key, keys[i])
            IN  <<keys[i], SumUpTo(amounts, NRows(d))>>]

\* Series.nlargest(n), n < len(s): the mergesort path. An entry's place is
\* the number of larger entries plus the number of equal entries before it.
Place(s, i) ==
    Cardinality({j \in 1..Len(s) : NumLess(s[i][2], s[j][2])})
    + Cardinality({j \in 1..(i - 1) : s[j][2] = s[i][2]}) + 1

\* nlargest(n, keep='last'): of equal entries the later ones come first
NLargestKeepLast(s, n) ==
    [k \in 1..n |->
        s[CHOOSE i \in 1..Len(s) :
            Cardinality({j \in 1..Len(s) : NumLess(s[i][2], s[j][2])})
            + Cardinality({j \in (i + 1)..Len(s) : s[j][2] = s[i][2]}) + 1 = k]]

NLargestFast(s, n) ==
    [k \in 1..n |-> s[CHOOSE i \in 1..Len(s) : Place(s, i) = k]]

\* Series.nlargest(n), n >= len(s): sort_values(ascending=False).head(n) with
\* the default quicksort, which is not stable: every descending order of s.
RECURSIVE DescendingOrders(_, _)
DescendingOrders(s, I) ==
    IF I = {} THEN {<<>>}
    ELSE UNION {{<<s[i]>> \o t : t \in DescendingOrders(s, I \ {i})} :
                i \in {i \in I : \A j \in I : ~NumLess(s[i][2], s[j][2])}}

\* the results Series.nlargest(n) can give
NLargest(s, n) ==
    IF n >= Len(s) THEN DescendingOrders(s, 1..Len(s))
    ELSE {NLargestFast(s, n)}

\* Series.idxmax(): the key of the first largest entry of a non-empty s
IdxMax(s) ==
    LET i == CHOOSE i \in 1..Len(s) :
                /\ \A j \in 1..Len(s) : ~NumLess(s[i][2], s[j][2])
                /\ \A j \in 1..(i - 1) : NumLess(s[j][2], s[i][2])
    IN  s[i][1][2]

\* d.head(n)
Head_(d, n) ==
    LET pos == [k \in 1..(IF NRows(d) < n THEN NRows(d) ELSE n) |-> k]
    IN  Take(d, pos)

-----------------------------------------------------------------------------
(* Top row metrics (lines 182-189) *)

TopStartups == 10

TopIndustries == 20

HeadRows == 20

NA == <<"N", "/", "A">>

TotalFunding(f) == LET col == Col(f, AmountInUSD) IN SumMinCount1(col)

\* Series.nunique()
StartupCount(f) ==
    IF HasCol(f, StartupName) THEN Cardinality(Unique(f, StartupName))
    ELSE NRows(f)

\* filtered['Amount in USD'].isna().all()
AmountAllNaN(f) == LET col == Col(f, AmountInUSD) IN CountKnown(col) = 0

AvgTicket(f) ==
    IF ~AmountAllNaN(f) THEN LET col == Col(f, AmountInUSD) IN Mean(col) ELSE NaN

\* idxmax of an empty Series raises ValueError
TopCityRaises(f) == ~AmountAllNaN(f) /\ Unique(f, CityLocation) = {}

TopCity(f) ==
    IF ~AmountAllNaN(f)
    THEN LET by_city == GroupSum(f, CityLocation) IN IdxMax(by_city)
    ELSE NA

\* round(p / q) to the nearest integer, ties to even (format spec .0f)
RoundRatio(p, q) ==
    LET fl == p \div q
        r  == p % q
    IN  IF 2 * r < q THEN fl
        ELSE IF 2 * r > q THEN fl + 1
        ELSE IF fl % 2 = 0 THEN fl ELSE fl + 1

\* f"{x:,.0f}" if not np.isnan(x) else "N/A" : <<"fmt", k>> is the text of k
MetricTotal(x) ==
    IF IsNaN(x) THEN NA ELSE <<"fmt", RoundRatio(x[2], Pow10(x[3]))>>

MetricAvg(x) ==
    IF IsNaN(x) THEN NA
    ELSE <<"fmt", RoundRatio(x[1][2], x[2] * Pow10(x[1][3]))>>

Metrics(f) ==
    LET total == TotalFunding(f)
        avg   == AvgTicket(f)
    IN  <<MetricTotal(total), <<"fmt", StartupCount(f)>>, MetricAvg(avg)>>

-----------------------------------------------------------------------------
(* Charts (lines 196-236) and the report (lines 41-49) *)

\* the charts a missing column disables are <<>>
TopChart(f) ==
    IF HasCol(f, StartupName)
    THEN LET by_startup == GroupSum(f, StartupName)
         IN  NLargest(by_startup, TopStartups)
    ELSE {<<>>}

ByYear(f) == GroupSum(f, YearName)

Treemap(f) ==
    IF HasCol(f, IndustryVertical)
    THEN LET by_industry == GroupSum(f, IndustryVertical)
         IN  NLargest(by_industry, TopIndustries)
    ELSE {<<>>}

\* df.groupby('Startup Name') raises KeyError without that column
ExportRaises(f) == ~HasCol(f, StartupName)

\* the report's parts: its top 10 table and its first 20 rows
export_markdown(f) ==
    LET by_startup == GroupSum(f, StartupName)
        head       == Head_(f, HeadRows)
    IN  {<<t, head>> : t \in NLargest(by_startup, TopStartups)}

-----------------------------------------------------------------------------
(* One run of the script *)

EmptyFrame == [index |-> <<>>, cols |-> <<>>]

\* what a run leaves when it stops before anything is computed
NothingDone ==
    [df |-> EmptyFrame, has_geo |-> FALSE, filtered |-> EmptyFrame,
     total_funding |-> NaN, startup_count |-> 0, avg_ticket |-> NaN,
     top_city |-> <<>>, metrics |-> <<>>, top |-> <<>>, by_year |-> <<>>,
     treemap |-> <<>>, md |-> <<>>, raised |-> ""]

\* The outcomes of running the script on df_raw with the given selections:
\* the run stops at the first statement that raises (the cast of line 82,
\* idxmax of line 185, the groupby of line 45), and what was not computed
\* by then keeps its empty value.  The Excel export of line 278 is taken to
\* succeed, as it does with the pandas the script is written for.
Script(raw, sy, sc, si, sv, sr) ==
    LET b == BeforeCast(raw) IN
    IF CastRaises(b)
    THEN {[NothingDone EXCEPT !.raised = "TypeError"]}
    ELSE
    LET d == ResolveCity(b)
        f == ApplyFilters(d, sy, sc, si, sv, sr)
        upTo184 == [NothingDone EXCEPT
                       !.df = d, !.has_geo = HasGeo(d), !.filtered = f,
                       !.total_funding = TotalFunding(f),
                       !.startup_count = StartupCount(f),
                       !.avg_ticket = AvgTicket(f)]
    IN  IF TopCityRaises(f)
        THEN {[upTo184 EXCEPT !.raised = "ValueError"]}
        ELSE
        LET upTo236(t, tm) ==
                [upTo184 EXCEPT
                    !.top_city = TopCity(f), !.metrics = Metrics(f),
                    !.top = t, !.by_year = ByYear(f), !.treemap = tm]
        IN  IF ExportRaises(f)
            THEN {[upTo236(t, tm) EXCEPT !.raised = "KeyError"] :
                    t \in TopChart(f), tm \in Treemap(f)}
            ELSE {[upTo236(t[1], t[2]) EXCEPT !.md = m] :
                    t \in TopChart(f) \X Treemap(f), m \in export_markdown(f)}

\* the state after a run with outcome o
Shown(o, sy, sc, si, sv, sr) ==
    /\ ran' = TRUE
    /\ selected_years' = sy
    /\ selected_cities' = sc
    /\ selected_industries' = si
    /\ selected_investors' = sv
    /\ selected_rounds' = sr
    /\ df' = o.df
    /\ has_geo' = o.has_geo
    /\ filtered' = o.filtered
    /\ total_funding' = o.total_funding
    /\ startup_count' = o.startup_count
    /\ avg_ticket' = o.avg_ticket
    /\ top_city' = o.top_city
    /\ metrics' = o.metrics
    /\ top' = o.top
    /\ by_year' = o.by_year
    /\ treemap' = o.treemap
    /\ md' = o.md
    /\ raised' = o.raised
    /\ UNCHANGED df_raw

Rerun(sy, sc, si, sv, sr) ==
    \E o \in Script(df_raw, sy, sc, si, sv, sr) : Shown(o, sy, sc, si, sv, sr)

\* the values a user picks in one multiselect: at most MaxPick of its options
MaxPick == 2

RECURSIVE Picks(_, _)
Picks(options, k) ==
    IF k = 0 THEN {{}}
    ELSE Picks(options, k - 1)
         \cup {S \cup {x} : S \in Picks(options, k - 1), x \in options}

\* the sidebar is drawn unless the run stopped in the cleaning section
SidebarDrawn == ran /\ raised # "TypeError"

-----------------------------------------------------------------------------
(* Actions *)

\* The page is opened: the first run, every widget at its default
\* (default=years for the Year multiselect, None for the others).
Open ==
    /\ ~ran
    /\ LET b == BeforeCast(df_raw)
       IN  IF CastRaises(b) THEN Rerun({}, {}, {}, {}, {})
           ELSE LET d       == ResolveCity(b)
                    default == years(d)
                IN  Rerun(default, {}, {}, {}, {})

SelectYears ==
    /\ SidebarDrawn
    /\ \E S \in LET options == years(df) IN Picks(options, MaxPick) :
        /\ S # selected_years
        /\ Rerun(S, selected_cities, selected_industries, selected_investors,
                 selected_rounds)

SelectCities ==
    /\ SidebarDrawn
    /\ \E S \in LET options == cities(df) IN Picks(options, MaxPick) :
        /\ S # selected_cities
        /\ Rerun(selected_years, S, selected_industries, selected_investors,
                 selected_rounds)

SelectIndustries ==
    /\ SidebarDrawn
    /\ \E S \in LET options == industries(df) IN Picks(options, MaxPick) :
        /\ S # selected_industries
        /\ Rerun(selected_years, selected_cities, S, selected_investors,
                 selected_rounds)

SelectInvestors ==
    /\ SidebarDrawn
    /\ \E S \in LET options == investors(df) IN Picks(options, MaxPick) :
        /\ S # selected_investors
        /\ Rerun(selected_years, selected_cities, selected_industries, S,
                 selected_rounds)

SelectRounds ==
    /\ SidebarDrawn
    /\ \E S \in LET options == round_options(df) IN Picks(options, MaxPick) :
        /\ S # selected_rounds
        /\ Rerun(selected_years, selected_cities, selected_industries,
                 selected_investors, S)

Next ==
    \/ Open
    \/ SelectYears
    \/ SelectCities
    \/ SelectIndustries
    \/ SelectInvestors
    \/ SelectRounds

\* before the first run: df_raw is loaded, nothing is computed or selected
Loaded(raw) ==
    /\ df_raw = raw
    /\ ran = FALSE
    /\ selected_years = {}
    /\ selected_cities = {}
    /\ selected_industries = {}
    /\ selected_investors = {}
    /\ selected_rounds = {}
    /\ df = NothingDone.df
    /\ has_geo = NothingDone.has_geo
    /\ filtered = NothingDone.filtered
    /\ total_funding = NothingDone.total_funding
    /\ startup_count = NothingDone.startup_count
    /\ avg_ticket = NothingDone.avg_ticket
    /\ top_city = NothingDone.top_city
    /\ metrics = NothingDone.metrics
    /\ top = NothingDone.top
    /\ by_year = NothingDone.by_year
    /\ treemap = NothingDone.treemap
    /\ md = NothingDone.md
    /\ raised = NothingDone.raised

-----------------------------------------------------------------------------
(* The tables drawn *)

MaxRows == 2

\* the sequences over S of length at most n
RECURSIVE SeqsUpTo(_, _)
SeqsUpTo(S, n) ==
    IF n = 0 THEN {<<>>}
    ELSE SeqsUpTo(S, n - 1)
         \cup {Append(t, x) : t \in {u \in SeqsUpTo(S, n - 1) : Len(u) = n - 1}, x \in S}

Txt1(ch) == Str(<<ch>>)

Y2015 == Num(2015, 0)

Y2016 == Num(2016, 0)

AllColumns ==
    <<StartupName, IndustryVertical, InvestorsName, FundingRound, CityLocation,
      YearName, AmountInUSD>>

\* pd.read_csv: the table of the given rows under the given header, the
\* rows labelled 1, 2, ... in file order
Frame(header, rows) ==
    [index |-> [r \in 1..Len(rows) |-> r],
     cols  |-> [c \in {header[i] : i \in 1..Len(header)} |->
                 [r \in 1..Len(rows) |->
                     rows[r][CHOOSE i \in 1..Len(header) : header[i] = c]]]]

\* Filtering: two years, every filter column with and without a value (at
\* most one of industry, investor and round missing in a row).
FilterRows ==
    {<<Txt1("S"), t[1], t[2], t[3], city, year, Num(5, 0)>> :
        t \in {<<Txt1("I"), Txt1("V"), Txt1("R")>>, <<NaN, Txt1("V"), Txt1("R")>>,
               <<Txt1("I"), NaN, Txt1("R")>>, <<Txt1("I"), Txt1("V"), NaN>>},
        city \in {NaN, Txt1("A")},
        year \in {NaN, Y2015, Y2016}}

FilterTables == {Frame(AllColumns, rows) : rows \in SeqsUpTo(FilterRows, MaxRows)}

Init == \E raw \in FilterTables : Loaded(raw)

Spec == Init /\ [][Next]_vars

\* Aggregation: two startups, amounts as texts and missing.
AggRows ==
    {<<startup, Txt1("I"), Txt1("V"), Txt1("R"), city, Y2015, amount>> :
        startup \in {NaN, Txt1("P"), Txt1("Q")},
        city \in {NaN, Txt1("A")},
        amount \in {NaN, Str(<<"$", "5">>), Str(<<"$", "7", ".", "5">>)}}

AggTables == {Frame(AllColumns, rows) : rows \in SeqsUpTo(AggRows, MaxRows)}

InitAgg == \E raw \in AggTables : Loaded(raw)

SpecAgg == InitAgg /\ [][Next]_vars

\* Cleaning: the year from a numeric Year column, a text Year column, a Date
\* column or no column at all; the amount column absent, text or numeric.
BaseHeader ==
    <<StartupName, IndustryVertical, InvestorsName, FundingRound, CityLocation>>

BaseCells == <<Txt1("S"), Txt1("I"), Txt1("V"), Txt1("R"), Txt1("A")>>

YearKinds ==
    {[header |-> <<YearName>>, cells |-> {<<Y2015>>, <<NaN>>}],
     [header |-> <<YearName>>,
      cells |-> {<<Str(<<"2", "0", "1", "5">>)>>, <<Str(<<"F", "Y", "1", "5">>)>>,
                 <<Str(<<"2", "0", "1", "5", ".", "5">>)>>}],
     [header |-> <<DateName>>,
      cells |-> {<<<<"date", 5, 7, 2018>>>>, <<Str(<<"T", "B", "D">>)>>, <<NaN>>}],
     [header |-> <<>>, cells |-> {<<>>}]}

AmountKinds ==
    {[header |-> <<AmountInUSD>>,
      cells |-> {<<Str(<<"$", "5">>)>>, <<Str(<<"?">>)>>, <<NaN>>}],
     [header |-> <<AmountInUSD>>, cells |-> {<<Num(5, 0)>>, <<NaN>>}],
     [header |-> <<>>, cells |-> {<<>>}]}

NormTables ==
    UNION {{Frame(BaseHeader \o yk.header \o ak.header, rows) :
              rows \in SeqsUpTo({BaseCells \o y \o a : y \in yk.cells, a \in ak.cells},
                                MaxRows)} :
           yk \in YearKinds, ak \in AmountKinds}

InitNorm == \E raw \in NormTables : Loaded(raw)

SpecNorm == InitNorm /\ [][Next]_vars

\* Amount texts: the example of the design document in the first row, every
\* text of up to MaxLen characters, or no cell, in the second.
MaxLen == 3

AmountChars == {"5", "0", ".", ",", "$", " "}

AmountTexts == {Str(t) : t \in SeqsUpTo(AmountChars, MaxLen)}

Example == Str(<<"U", "S", "D", " ", "6", ",", "5", "0", ",", "0", "0", "0">>)

AmountTables ==
    {Frame(BaseHeader \o <<YearName, AmountInUSD>>,
           <<BaseCells \o <<Y2015, Example>>, BaseCells \o <<Y2015, a>>>>) :
        a \in AmountTexts \cup {NaN}}

InitAmount == \E raw \in AmountTables : Loaded(raw)

SpecAmount == InitAmount /\ [][Next]_vars

\* Ranking: as many startups as the top chart shows, or one more, one row
\* each, in the order of their names or in the reverse order; the startup
\* of rank g has raised g, but for one that has raised as much as the next.
\* MaxTied is the highest rank that one may have (0: no two are level).
MaxTied == 2

Letters == <<"A", "B", "C", "D", "E", "F", "G", "H", "I", "J", "K">>

RankedRow(g, tied) ==
    <<Txt1(Letters[g])>> \o Tail(BaseCells)
        \o <<Y2015, Num(IF g = tied THEN g + 1 ELSE g, 0)>>

RankedTables ==
    {Frame(BaseHeader \o <<YearName, AmountInUSD>>,
           [r \in 1..n |-> RankedRow(IF reversed THEN n + 1 - r ELSE r, tied)]) :
        n \in {TopStartups, TopStartups + 1}, tied \in 0..MaxTied,
        reversed \in BOOLEAN}

InitTopN == \E raw \in RankedTables : Loaded(raw)

SpecTopN == InitTopN /\ [][Next]_vars

\* Columns: one row under every choice of the columns that are there. The
\* city column is under an accepted name, under a name with a blank before or
\* after it, in lower case or with two blanks inside; the names that are not
\* accepted ones come with every other column there.
Opt(name, cell) == {<<<<>>, <<>>>>, <<<<name>>, <<cell>>>>}

CityHeaders ==
    {CityLocation, CityName, HeadquartersName,
     <<" ">> \o CityName, LocationName \o <<" ">>,
     <<"c", "i", "t", "y">>,
     <<"C", "i", "t", "y", " ", " ", "l", "o", "c", "a", "t", "i", "o", "n">>}

ColumnChoices ==
    {x \in Opt(StartupName, Txt1("S"))
           \X ({<<<<>>, <<>>>>} \cup {<<<<h>>, <<Txt1("A")>>>> : h \in CityHeaders})
           \X Opt(IndustryVertical, Txt1("I"))
           \X Opt(InvestorsName, Txt1("V"))
           \X Opt(FundingRound, Txt1("R"))
           \X (Opt(YearName, Y2015) \cup Opt(DateName, <<"date", 5, 7, 2018>>))
           \X ({<<<<>>, <<>>>>, <<<<LatitudeName>>, <<Num(1, 0)>>>>,
                <<<<LatitudeName, LongitudeName>>, <<Num(1, 0), Num(2, 0)>>>>}) :
        \/ x[2][1] \in {<<>>, <<CityName>>}
        \/ \A k \in 1..7 : x[k][1] # <<>>}

ColumnTables ==
    {Frame(x[1][1] \o x[2][1] \o x[3][1] \o x[4][1] \o x[5][1] \o x[6][1]
              \o x[7][1] \o <<AmountInUSD>>,
           <<x[1][2] \o x[2][2] \o x[3][2] \o x[4][2] \o x[5][2] \o x[6][2]
              \o x[7][2] \o <<a>>>>) :
        x \in ColumnChoices, a \in {NaN, Num(5, 0)}}

InitColumns == \E raw \in ColumnTables : Loaded(raw)

SpecColumns == InitColumns /\ [][Next]_vars

-----------------------------------------------------------------------------
(* Claims on the filters *)

Categories == {"years", "cities", "industries", "investors", "rounds"}

ColumnOf(c) ==
    CASE c = "years" -> YearName
      [] c = "cities" -> CityLocation
      [] c = "industries" -> IndustryVertical
      [] c = "investors" -> InvestorsName
      [] c = "rounds" -> FundingRound

SelectionOf(c) ==
    CASE c = "years" -> selected_years
      [] c = "cities" -> selected_cities
      [] c = "industries" -> selected_industries
      [] c = "investors" -> selected_investors
      [] c = "rounds" -> selected_rounds

\* the cell of row r of the canonical table is one of the values selected in c
Member(c, r) ==
    LET cell == df.cols[ColumnOf(c)][r]
    IN  IF c = "years"
        THEN IsNum(cell) /\ cell[3] = 0 /\ IntToStr(cell[2]) \in selected_years
        ELSE IsStr(cell) /\ cell[2] \in SelectionOf(c)

\* row r passes every predicate of cs whose selection is not empty
Passes(cs, r) == \A c \in cs : SelectionOf(c) = {} \/ Member(c, r)

\* the last run got as far as the filters
Filtered == ran /\ raised # "TypeError"

\* the canonical table restricted by the predicates of cs only
RestrictedTo(cs) ==
    LET keep == {r \in 1..NRows(df) : Passes(cs, r)}
    IN  /\ Len(filtered.index) = Cardinality(keep)
        /\ \A k \in 1..Len(filtered.index) : filtered.index[k] \in keep
        /\ \A k \in 1..(Len(filtered.index) - 1) :
              filtered.index[k] < filtered.index[k + 1]
        /\ DOMAIN filtered.cols = DOMAIN df.cols
        /\ \A c \in DOMAIN df.cols : \A k \in 1..Len(filtered.index) :
              filtered.cols[c][k] = df.cols[c][filtered.index[k]]

\* C1: whenever a category's selection is empty, the Filtered Table is the
\* canonical table restricted by the other four predicates only: the empty
\* selection passes every row, also a row whose cell in that column is
\* missing, and with all five empty the Filtered Table is the whole table.
C1_EmptySelectionPassesThrough ==
    Filtered =>
        /\ \A c \in Categories :
              SelectionOf(c) = {} => RestrictedTo(Categories \ {c})
        /\ (\A c \in Categories : SelectionOf(c) = {}) => filtered = df

\* C1 witness: the industry selection is empty while a year is selected, and
\* a row without an industry is among the rows kept, another row dropped.
C1_Witness ==
    /\ Filtered
    /\ selected_industries = {}
    /\ selected_years # {}
    /\ NRows(filtered) = 1
    /\ NRows(df) = 2
    /\ IsNaN(filtered.cols[IndustryVertical][1])

\* C2: the Filtered Table is exactly the canonical rows whose cell in every
\* column with a non-empty selection is one of the selected values (a
\* missing cell is none), in canonical order, each row once and unchanged.
C2_FilteredIsExactSubsequence ==
    Filtered => RestrictedTo(Categories)

\* C2 witness: two selections are active and of two rows the first is
\* dropped for its missing city, the second kept.
C2_Witness ==
    /\ Filtered
    /\ selected_years # {}
    /\ selected_cities # {}
    /\ NRows(df) = 2
    /\ IsNaN(df.cols[CityLocation][1])
    /\ filtered.index = <<2>>

-----------------------------------------------------------------------------
(* Claims on the metrics and the aggregates *)

\* the rows of the Filtered Table with a known amount
KnownRows == {r \in 1..NRows(filtered) : ~IsNaN(filtered.cols[AmountInUSD][r])}

\* the sum of the amounts of the rows R of the Filtered Table
RECURSIVE AmountSum(_)
AmountSum(R) ==
    IF R = {} THEN Zero
    ELSE LET r == CHOOSE x \in R : TRUE
         IN  NumAdd(filtered.cols[AmountInUSD][r], AmountSum(R \ {r}))

\* C7: when no row of the Filtered Table has a known amount (an empty table
\* included) total funding and mean ticket are NaN and both metrics are
\* drawn as "N/A"; otherwise total funding is the sum and mean ticket the
\* mean of the known amounts alone, and a metric that is drawn shows them.
C7_MetricsPropagateNull ==
    Filtered =>
        IF KnownRows = {}
        THEN /\ total_funding = NaN
             /\ avg_ticket = NaN
             /\ metrics # <<>>
             /\ metrics[1] = NA
             /\ metrics[3] = NA
        ELSE /\ total_funding = AmountSum(KnownRows)
             /\ avg_ticket = <<AmountSum(KnownRows), Cardinality(KnownRows)>>
             /\ metrics # <<>> =>
                  /\ metrics[1] = MetricTotal(AmountSum(KnownRows))
                  /\ metrics[3] =
                        MetricAvg(<<AmountSum(KnownRows), Cardinality(KnownRows)>>)
                  /\ metrics[1] # NA
                  /\ metrics[3] # NA

\* C7 witness: the Filtered Table has rows, none with a known amount, and
\* the total funding metric is drawn as "N/A".
C7_Witness ==
    /\ Filtered
    /\ NRows(filtered) = 2
    /\ KnownRows = {}
    /\ metrics # <<>>
    /\ metrics[1] = NA

\* the rows of the Filtered Table in the group k of column key
GroupRows(key, k) == {r \in 1..NRows(filtered) : filtered.cols[key][r] = k}

\* every entry of a per-group sum is a group with a known amount
OnlyKnownGroups(agg, key) ==
    \A i \in 1..Len(agg) : GroupRows(key, agg[i][1]) \cap KnownRows # {}

\* the last run drew its charts
ChartsDrawn == ran /\ raised \in {"", "KeyError"}

\* C9: the per-group funding sums (by startup, by year, by industry) hold an
\* entry for a group only if one of the group's rows has a known amount.
C9_NoEntryForAllNullGroup ==
    ChartsDrawn =>
        /\ OnlyKnownGroups(top, StartupName)
        /\ OnlyKnownGroups(by_year, YearName)
        /\ OnlyKnownGroups(treemap, IndustryVertical)

-----------------------------------------------------------------------------
(* Claims on the cleaning section *)

\* the cell of row r of df_raw in the column called name after stripping
RawCell(name, r) ==
    df_raw.cols[CHOOSE x \in DOMAIN df_raw.cols : Strip(x) = name][r]

HasRaw(name) == \E x \in DOMAIN df_raw.cols : Strip(x) = name

\* row r of df_raw has a date or year text that cannot be parsed
Unparseable(r) ==
    IF HasRaw(YearName)
    THEN IsStr(RawCell(YearName, r))
         /\ \E i \in 1..Len(RawCell(YearName, r)[2]) :
               ~IsDigit(RawCell(YearName, r)[2][i]) /\ RawCell(YearName, r)[2][i] # "."
    ELSE HasRaw(DateName) /\ IsStr(RawCell(DateName, r))

\* C5 as claimed: of a table with an unparseable date no canonical row has a
\* null year (the rows without a date were dropped).
C5_NoNullYearInCanonical ==
    (Filtered /\ \E r \in 1..NRows(df_raw) : Unparseable(r)) =>
        \A r \in 1..NRows(df) : ~IsNaN(df.cols[YearName][r])

\* C5 amended: cleaning drops no row. A row whose date or year cannot be
\* parsed stays in the canonical table with a null year, and is left out of
\* the Filtered Table whenever a year is selected.
C5_UnparsedDateKeptWithNullYear ==
    Filtered =>
        /\ df.index = df_raw.index
        /\ \A r \in 1..NRows(df_raw) :
              Unparseable(r) =>
                 /\ IsNaN(df.cols[YearName][r])
                 /\ selected_years # {} =>
                       \A k \in 1..NRows(filtered) : filtered.index[k] # r

\* C5 witness: of two rows the first has an unparseable date; it is in the
\* canonical table and not in the Filtered Table.
C5_Witness ==
    /\ Filtered
    /\ NRows(df_raw) = 2
    /\ HasRaw(DateName)
    /\ Unparseable(1)
    /\ ~Unparseable(2)
    /\ NRows(df) = 2
    /\ filtered.index = <<2>>

\* row r of df_raw has no funding amount: no column, no cell, no digit
AmountMissing(r) ==
    \/ ~HasRaw(AmountInUSD)
    \/ IsNaN(RawCell(AmountInUSD, r))
    \/ /\ IsStr(RawCell(AmountInUSD, r))
       /\ \A i \in 1..Len(RawCell(AmountInUSD, r)[2]) :
             ~IsDigit(RawCell(AmountInUSD, r)[2][i])

\* C6 as claimed: when some row has a known amount the canonical table has
\* no null amount (a missing amount was replaced by the mean).
C6_NoNullAmountOnceOneKnown ==
    (Filtered /\ \E r \in 1..NRows(df_raw) : ~AmountMissing(r)) =>
        \A r \in 1..NRows(df) : ~IsNaN(df.cols[AmountInUSD][r])

\* C6 amended: after cleaning and before any filter, every row whose funding
\* amount was missing has a null amount, whether or not another row has a
\* known amount: nothing is imputed.
C6_MissingAmountStaysNull ==
    Filtered =>
        \A r \in 1..NRows(df_raw) :
           AmountMissing(r) => IsNaN(df.cols[AmountInUSD][r])

\* C6 witness: one row has a known amount, the other had none and is null
\* in the canonical table.
C6_Witness ==
    /\ Filtered
    /\ NRows(df) = 2
    /\ AmountMissing(1)
    /\ ~AmountMissing(2)
    /\ IsNaN(df.cols[AmountInUSD][1])
    /\ df.cols[AmountInUSD][2] = Num(5, 0)

-----------------------------------------------------------------------------
(* Claims on clean_amount *)

\* what is left of a text once every character that is neither a digit nor
\* a decimal point is removed
Stripped(t) == SelectSeq(t, LAMBDA ch : IsDigit(ch) \/ ch = ".")

Points(t) == {i \in 1..Len(t) : t[i] = "."}

\* t is a decimal numeral: digits with at most one decimal point
Numeral(t) == Cardinality(Points(t)) <= 1 /\ Len(t) > Cardinality(Points(t))

\* the number of decimals of a numeral
Decimals(t) == IF Points(t) = {} THEN 0 ELSE Len(t) - (CHOOSE i \in Points(t) : TRUE)

\* the integer the first n digits of a sequence of digits spell
RECURSIVE Spelt(_, _)
Spelt(ds, n) == IF n = 0 THEN 0 ELSE 10 * Spelt(ds, n - 1) + DigitVal(ds[n])

\* cell c is the number the numeral t denotes
Denotes(c, t) ==
    LET ds == SelectSeq(t, LAMBDA ch : ch # ".")
    IN  IsNum(c) /\ c[2] * Pow10(Decimals(t)) = Spelt(ds, Len(ds)) * Pow10(c[3])

\* C3: on a text amount column every cell becomes the number read from what
\* is left once the characters that are neither digits nor decimal points are
\* removed; null when nothing is left, or when what is left is not a numeral
\* (two decimal points); a missing cell is null; and nothing raises.
C3_CleanAmountReadsStrippedNumber ==
    ran =>
        /\ raised = ""
        /\ \A r \in 1..NRows(df_raw) :
              LET c == RawCell(AmountInUSD, r)
                  t == IF IsStr(c) THEN Stripped(c[2]) ELSE <<>>
                  a == df.cols[AmountInUSD][r]
              IN  IF Numeral(t) THEN Denotes(a, t) ELSE IsNaN(a)

\* C3 witness: "USD 6,50,000" has become 650000 and "5.." null.
C3_Witness ==
    /\ ran
    /\ RawCell(AmountInUSD, 1) = Example
    /\ df.cols[AmountInUSD][1] = Num(650000, 0)
    /\ RawCell(AmountInUSD, 2) = Str(<<"5", ".", ".">>)
    /\ IsNaN(df.cols[AmountInUSD][2])

-----------------------------------------------------------------------------
(* Claims on the rankings *)

\* the groups of column key in the Filtered Table
Groups(key) ==
    {filtered.cols[key][r] : r \in 1..NRows(filtered)} \ {NaN}

\* the funding total of group k
Total(key, k) == AmountSum(GroupRows(key, k) \cap KnownRows)

\* the label of the first row of group k, in Canonical Table row order
FirstRow(key, k) ==
    filtered.index[CHOOSE r \in GroupRows(key, k) :
                      \A q \in GroupRows(key, k) : r <= q]

\* t holds the n largest groups of column key with their totals, largest
\* first
Ranked(t, key, n) ==
    /\ Len(t) = IF Cardinality(Groups(key)) < n THEN Cardinality(Groups(key)) ELSE n
    /\ \A i \in 1..Len(t) :
          /\ t[i][1] \in Groups(key)
          /\ t[i][2] = Total(key, t[i][1])
          /\ \A j \in (i + 1)..Len(t) :
                t[i][1] # t[j][1] /\ ~NumLess(t[i][2], t[j][2])
          /\ \A g \in Groups(key) \ {t[j][1] : j \in 1..Len(t)} :
                ~NumLess(t[i][2], Total(key, g))

EarlierRow(key, a, b) == FirstRow(key, a) < FirstRow(key, b)

\* a comes before b: by name, or else by first row
Before(key, byName, a, b) ==
    IF byName THEN CellLess(a, b) ELSE EarlierRow(key, a, b)

\* in t every two groups of equal total are ranked in the order Before, and
\* every kept group is Before every left out group of equal total
TiesRanked(t, key, byName) ==
    \A i \in 1..Len(t) :
       /\ \A j \in (i + 1)..Len(t) :
             t[i][2] = t[j][2] => Before(key, byName, t[i][1], t[j][1])
       /\ \A g \in Groups(key) \ {t[j][1] : j \in 1..Len(t)} :
             t[i][2] = Total(key, g) => Before(key, byName, t[i][1], g)

\* C8 as claimed: the rankings are sorted by total, largest first, and of
\* two groups of equal total the one whose first row comes earlier is ranked
\* first, and is the one kept at the last place.
C8_TiesByRowOrder ==
    ChartsDrawn =>
        /\ Ranked(top, StartupName, TopStartups)
        /\ Ranked(treemap, IndustryVertical, TopIndustries)
        /\ TiesRanked(top, StartupName, FALSE)
        /\ TiesRanked(treemap, IndustryVertical, FALSE)

\* C8 amended: the rankings hold at most N groups, the largest totals, sorted
\* largest first.  When there are more than N groups, of two groups of equal
\* total the one whose name sorts first is ranked first and is the one kept
\* at the last place; with N groups or fewer the order of equal totals is
\* not determined.
C8_TiesByGroupName ==
    ChartsDrawn =>
        /\ Ranked(top, StartupName, TopStartups)
        /\ Ranked(treemap, IndustryVertical, TopIndustries)
        /\ raised = "" => Ranked(md[1], StartupName, TopStartups)
        /\ Cardinality(Groups(StartupName)) > TopStartups =>
              TiesRanked(top, StartupName, TRUE)
        /\ Cardinality(Groups(IndustryVertical)) > TopIndustries =>
              TiesRanked(treemap, IndustryVertical, TRUE)

\* C8 witness: of eleven startups, B's row comes before A's and both have
\* raised 2, the least; the top 10 ends with A and leaves B out.
C8_Witness ==
    /\ ChartsDrawn
    /\ Len(top) = TopStartups
    /\ Cardinality(Groups(StartupName)) = TopStartups + 1
    /\ top[TopStartups] = <<Txt1("A"), Num(2, 0)>>
    /\ Total(StartupName, Txt1("B")) = Num(2, 0)
    /\ FirstRow(StartupName, Txt1("B")) < FirstRow(StartupName, Txt1("A"))
    /\ \A i \in 1..Len(top) : top[i][1] # Txt1("B")

-----------------------------------------------------------------------------
(* Claims on the columns *)

UpperCase ==
    <<"A", "B", "C", "D", "E", "F", "G", "H", "I", "J", "K", "L", "M",
      "N", "O", "P", "Q", "R", "S", "T", "U", "V", "W", "X", "Y", "Z">>

LowerCase ==
    <<"a", "b", "c", "d", "e", "f", "g", "h", "i", "j", "k", "l", "m",
      "n", "o", "p", "q", "r", "s", "t", "u", "v", "w", "x", "y", "z">>

ToLower(ch) ==
    IF \E i \in 1..26 : UpperCase[i] = ch
    THEN LowerCase[CHOOSE i \in 1..26 : UpperCase[i] = ch]
    ELSE ch

\* a header without its whitespace and in lower case
Folded(h) ==
    LET t == SelectSeq(h, LAMBDA ch : ~IsSpace(ch))
    IN  [i \in 1..Len(t) |-> ToLower(t[i])]

\* header h is the name a with whitespace before and after it, if any
Padded(h, a) ==
    \E i \in 0..Len(h) :
       /\ i + Len(a) <= Len(h)
       /\ SubSeq(h, i + 1, i + Len(a)) = a
       /\ \A k \in (1..i) \cup ((i + Len(a) + 1)..Len(h)) : IsSpace(h[k])

Aliases == {CityCandidates[k] : k \in 1..Len(CityCandidates)}

\* the canonical city column is the column of df_raw under header h
ResolvedTo(h) == df.cols[CityLocation] = df_raw.cols[h]

\* C4 as claimed: a header that differs from an accepted city name only in
\* letter case or in whitespace is resolved to the canonical city column.
C4_CaseAndWhitespaceInsensitive ==
    Filtered =>
        \A h \in DOMAIN df_raw.cols :
           (\E a \in Aliases : Folded(h) = Folded(a)) => ResolvedTo(h)

\* C4 amended: column resolution ignores the whitespace before and after a
\* header and nothing else.  A header that is an accepted city name with
\* whitespace around it is resolved to the canonical city column; one that
\* differs in letter case or in the whitespace inside it is not, and the
\* canonical city column is created empty.
C4_SurroundingWhitespaceOnly ==
    Filtered =>
        \A h \in DOMAIN df_raw.cols :
           (\E a \in Aliases : Folded(h) = Folded(a)) =>
               IF \E a \in Aliases : Padded(h, a)
               THEN ResolvedTo(h)
               ELSE \A r \in 1..NRows(df) : IsNaN(df.cols[CityLocation][r])

\* C4 witness: the header " City" has been resolved, its cell is the city.
C4_Witness ==
    /\ Filtered
    /\ <<" ">> \o CityName \in DOMAIN df_raw.cols
    /\ df.cols[CityLocation] = <<Txt1("A")>>
    /\ CityName \notin DOMAIN df.cols

\* C10: whatever columns other than the amount are absent and whatever is
\* selected, a run reaches its end without raising.
C10_NoRunRaises == ran => raised = ""

====
